---- MODULE Spec2Model ----
(***************************************************************************)
(* A model of the MoQT stream parser (moqt/src/message/message_parser.rs)  *)
(* and of the codecs it calls (serde/varint.rs, message/mod.rs).           *)
(*                                                                         *)
(* A byte is a number in 0..255, a buffer a sequence of bytes.  One        *)
(* MessageParser is modelled: its fields are the variables, process_data   *)
(* and poll_event are the actions.  The peer is modelled by `input`, the   *)
(* bytes it has still to send on the stream, cut into chunks at will; the  *)
(* caller by `polled`, the events it has drained with poll_event.          *)
(* use_web_transport is set by new() and never read; it is left out.       *)
(***************************************************************************)
EXTENDS Integers, Sequences, FiniteSets, TLC

VARIABLES
    no_more_data,              \* MessageParser.no_more_data
    parsing_error,             \* MessageParser.parsing_error
    buffered_message,          \* MessageParser.buffered_message
    object_metadata,           \* MessageParser.object_metadata
    payload_length_remaining,  \* MessageParser.payload_length_remaining
    parser_events,             \* MessageParser.parser_events
    panicked,                  \* an assert! of the object path has failed
    stream,                    \* the bytes the peer sends on the stream
    input,                     \* the part of them it has not sent yet
    polled                     \* events returned by poll_event so far

vars == <<no_more_data, parsing_error, buffered_message, object_metadata,
          payload_length_remaining, parser_events, panicked, stream, input,
          polled>>

-----------------------------------------------------------------------------
(* Bounds of the exploration.                                              *)

\* Inputs of at most this length are cut into chunks of every size.
MaxShort == 14
\* A longer input is sent in one chunk that leaves at most this many bytes.
MaxTail == 2
\* process_data is not called once this many events were queued in all.
MaxEvents == 4
\* Length of the unstructured inputs.
GarbageLen == 3

-----------------------------------------------------------------------------
(* Option and Result values.                                               *)

None == [some |-> FALSE]
Some(x) == [some |-> TRUE, v |-> x]

\* Ok((v, len)) of a deserializer
Ok(x, l) == [ok |-> TRUE, v |-> x, len |-> l]
\* Err(e); `used` is the number of bytes the reader had consumed
Err(e, u) == [ok |-> FALSE, err |-> e, used |-> u]
\* Err(Error::ErrProtocolViolation(reason))
ErrProtocolViolation(reason) ==
    [ok |-> FALSE, err |-> "ErrProtocolViolation", reason |-> reason]

\* Buf::advance / a slice [n..]
Advance(r, n) == SubSeq(r, n + 1, Len(r))
\* the first n bytes (Buf::copy_to_bytes takes them off the front)
Take(r, n) == SubSeq(r, 1, n)

-----------------------------------------------------------------------------
(* serde/varint.rs                                                         *)

Pow2_6 == 64
Pow2_14 == 16384
Pow2_30 == 1073741824

\* VarInt::size
VarIntSize(x) ==
    IF x < Pow2_6 THEN 1
    ELSE IF x < Pow2_14 THEN 2
    ELSE IF x < Pow2_30 THEN 4
    ELSE 8

\* the big-endian bytes of x, n of them (put_u16, put_u32)
RECURSIVE BigEndian(_, _)
BigEndian(x, n) ==
    IF n = 0 THEN <<>> ELSE Append(BigEndian(x \div 256, n - 1), x % 256)

\* A serializer without the 8-byte form: every value from 2^14 on is written
\* in 4 bytes.
VarIntSerializeNarrow(x) ==
    IF x < Pow2_6 THEN <<x>>
    ELSE IF x < Pow2_14 THEN BigEndian(Pow2_14 + x, 2)
    ELSE <<128 + (x \div 16777216)>> \o BigEndian(x % 16777216, 3)

\* impl Serializer for VarInt.  The values of the model are below 2^31, so
\* the first byte of the 8-byte form, 0b11 << 6 | x >> 56, is 192.
VarIntSerialize(x) ==
    IF x < Pow2_6 THEN <<x>>
    ELSE IF x < Pow2_14 THEN BigEndian(Pow2_14 + x, 2)
    ELSE IF x < Pow2_30
    THEN <<128 + (x \div 16777216)>> \o BigEndian(x % 16777216, 3)
    ELSE <<192>> \o BigEndian(x, 7)

\* u16/u32/u64::from_be_bytes
RECURSIVE FromBigEndian(_)
FromBigEndian(bs) ==
    IF bs = <<>> THEN 0
    ELSE FromBigEndian(Take(bs, Len(bs) - 1)) * 256 + bs[Len(bs)]

\* the number of bytes that follow a first byte with these tag bits
VarIntFollow(tag) ==
    CASE tag = 0 -> 0 [] tag = 1 -> 1 [] tag = 2 -> 3 [] OTHER -> 7

\* impl Deserializer for VarInt: the first byte is taken off the reader
\* before the length announced by its tag bits is checked.
VarIntDeserialize(r) ==
    IF Len(r) = 0 THEN Err("ErrUnexpectedEnd", 0)
    ELSE IF Len(r) - 1 < VarIntFollow(r[1] \div 64)
    THEN Err("ErrUnexpectedEnd", 1)
    ELSE Ok(FromBigEndian(<<r[1] % 64>>
                \o SubSeq(r, 2, 1 + VarIntFollow(r[1] \div 64))),
            1 + VarIntFollow(r[1] \div 64))

\* impl Deserializer for u64 / usize
u64_deserialize(r) == VarIntDeserialize(r)

\* A run of `?`-chained u64::deserialize calls: present[i] tells whether the
\* i-th field is read; an absent field is (0, 0).
RECURSIVE deserialize_fields(_, _)

\* the fields after the first, joined to it
fields_join(f, rest) ==
    IF ~rest.ok THEN rest ELSE Ok(<<f.v>> \o rest.v, f.len + rest.len)

\* `?` on the first field, then the others
fields_next(r, present, f) ==
    IF ~f.ok THEN f
    ELSE fields_join(f, deserialize_fields(Advance(r, f.len), Tail(present)))

deserialize_fields(r, present) ==
    IF present = <<>> THEN Ok(<<>>, 0)
    ELSE fields_next(r, present,
                     IF Head(present) THEN u64_deserialize(r) ELSE Ok(0, 0))

-----------------------------------------------------------------------------
(* message/mod.rs                                                          *)

MAX_MESSSAGE_HEADER_SIZE == 2048

\* impl TryFrom<u64> for MessageType (there is no arm for 0x2)
MessageTypeTryFrom(value) ==
    CASE value = 0  -> Ok("ObjectStream", 0)
      [] value = 1  -> Ok("ObjectDatagram", 0)
      [] value = 3  -> Ok("Subscribe", 0)
      [] value = 4  -> Ok("SubscribeOk", 0)
      [] value = 5  -> Ok("SubscribeError", 0)
      [] value = 6  -> Ok("Announce", 0)
      [] value = 7  -> Ok("AnnounceOk", 0)
      [] value = 8  -> Ok("AnnounceError", 0)
      [] value = 9  -> Ok("UnAnnounce", 0)
      [] value = 10 -> Ok("UnSubscribe", 0)
      [] value = 11 -> Ok("SubscribeDone", 0)
      [] value = 12 -> Ok("AnnounceCancel", 0)
      [] value = 13 -> Ok("TrackStatusRequest", 0)
      [] value = 14 -> Ok("TrackStatus", 0)
      [] value = 16 -> Ok("GoAway", 0)
      [] value = 64 -> Ok("ClientSetup", 0)
      [] value = 65 -> Ok("ServerSetup", 0)
      [] value = 80 -> Ok("StreamHeaderTrack", 0)
      [] value = 81 -> Ok("StreamHeaderGroup", 0)
      [] OTHER      -> Err("ErrInvalidMessageType", 0)

\* MessageType as u64
MessageTypeAsU64(mt) ==
    CASE mt = "ObjectStream" -> 0
      [] mt = "ObjectDatagram" -> 1
      [] mt = "SubscribeUpdate" -> 2
      [] mt = "Subscribe" -> 3
      [] mt = "SubscribeOk" -> 4
      [] mt = "SubscribeError" -> 5
      [] mt = "Announce" -> 6
      [] mt = "AnnounceOk" -> 7
      [] mt = "AnnounceError" -> 8
      [] mt = "UnAnnounce" -> 9
      [] mt = "UnSubscribe" -> 10
      [] mt = "SubscribeDone" -> 11
      [] mt = "AnnounceCancel" -> 12
      [] mt = "TrackStatusRequest" -> 13
      [] mt = "TrackStatus" -> 14
      [] mt = "GoAway" -> 16
      [] mt = "ClientSetup" -> 64
      [] mt = "ServerSetup" -> 65
      [] mt = "StreamHeaderTrack" -> 80
      [] mt = "StreamHeaderGroup" -> 81

\* v.try_into() on the VarInt read
MessageTypeOf(v, mt) ==
    IF mt.ok THEN Ok(mt.v, v.len) ELSE Err(mt.err, v.len)

\* `?` on the VarInt read
MessageTypeAfter(v) ==
    IF ~v.ok THEN v ELSE MessageTypeOf(v, MessageTypeTryFrom(v.v))

\* impl Decodable for MessageType: a VarInt, then try_into
MessageTypeDeserialize(r) == MessageTypeAfter(u64_deserialize(r))

\* impl Encodable for MessageType
MessageTypeSerialize(mt) == VarIntSerialize(MessageTypeAsU64(mt))

-----------------------------------------------------------------------------
(* Codecs the parser calls whose code is not among the sources.            *)

\* the bytes of a string whose length prefix l was read
StringAfter(r, l) ==
    IF ~l.ok THEN l
    ELSE IF Len(r) - l.len < l.v THEN Err("ErrUnexpectedEnd", l.len)
    ELSE IF \E i \in (l.len + 1)..(l.len + l.v) : r[i] >= 128
    THEN Err("ErrInvalidString", l.len + l.v)
    ELSE Ok(SubSeq(r, l.len + 1, l.len + l.v), l.len + l.v)

\* String: length(VarInt) + UTF-8 bytes.  The inputs hold ASCII only.
StringDeserialize(r) == StringAfter(r, u64_deserialize(r))

StringSerialize(s) == VarIntSerialize(Len(s)) \o s

\* impl From<u64> for ObjectStatus
ObjectStatusFrom(status) ==
    CASE status = 0 -> "Normal"
      [] status = 1 -> "ObjectDoesNotExist"
      [] status = 2 -> "GroupDoesNotExist"
      [] status = 3 -> "EndOfGroup"
      [] status = 4 -> "EndOfTrack"
      [] OTHER      -> "Invalid"

\* MessageType::get_object_forwarding_preference (called for the three
\* stream object types only)
get_object_forwarding_preference(message_type) ==
    CASE message_type = "ObjectStream"      -> "Object"
      [] message_type = "ObjectDatagram"    -> "Datagram"
      [] message_type = "StreamHeaderTrack" -> "Track"
      [] message_type = "StreamHeaderGroup" -> "Group"

\* ObjectForwardingPreference::get_message_type
get_message_type(preference) ==
    CASE preference = "Object"   -> "ObjectStream"
      [] preference = "Datagram" -> "ObjectDatagram"
      [] preference = "Track"    -> "StreamHeaderTrack"
      [] preference = "Group"    -> "StreamHeaderGroup"

-----------------------------------------------------------------------------
(* message/announce_cancel.rs                                              *)

\* Ok((Self { track_namespace }, tnsl))
AnnounceCancelOf(tns) ==
    IF ~tns.ok THEN tns
    ELSE Ok([type |-> "AnnounceCancel", track_namespace |-> tns.v], tns.len)

\* impl Deserializer for AnnounceCancel
AnnounceCancelDeserialize(r) == AnnounceCancelOf(StringDeserialize(r))

\* impl Serializer for AnnounceCancel
AnnounceCancelSerialize(m) == StringSerialize(m.track_namespace)

-----------------------------------------------------------------------------
(* message/mod.rs: FullSequence, FilterType                                *)

\* FullSequence { group_id, object_id }
FullSequence(g, o) == [group_id |-> g, object_id |-> o]

\* The four filter types as one record; a sequence not used is (0, 0).
FilterType(kind, start, end) == [kind |-> kind, start |-> start, end |-> end]
LatestGroup == FilterType("LatestGroup", FullSequence(0, 0), FullSequence(0, 0))
LatestObject == FilterType("LatestObject", FullSequence(0, 0), FullSequence(0, 0))
AbsoluteStart(start) == FilterType("AbsoluteStart", start, FullSequence(0, 0))
AbsoluteRange(start, end) == FilterType("AbsoluteRange", start, end)

\* FilterType::decode, arm 0x3: FullSequence::decode(r)?
absolute_start_of(v, f) ==
    IF ~f.ok THEN f
    ELSE Ok(AbsoluteStart(FullSequence(f.v[1], f.v[2])), v.len + f.len)

\* FilterType::decode, arm 0x4: FullSequence::decode(r)? twice
absolute_range_of(v, f) ==
    IF ~f.ok THEN f
    ELSE Ok(AbsoluteRange(FullSequence(f.v[1], f.v[2]),
                          FullSequence(f.v[3], f.v[4])),
            v.len + f.len)

\* FilterType::decode, match v
filter_type_of(r, v) ==
    IF ~v.ok THEN v
    ELSE CASE v.v = 1 -> Ok(LatestGroup, v.len)
           [] v.v = 2 -> Ok(LatestObject, v.len)
           [] v.v = 3 ->
                absolute_start_of(v,
                    deserialize_fields(Advance(r, v.len), <<TRUE, TRUE>>))
           [] v.v = 4 ->
                absolute_range_of(v,
                    deserialize_fields(Advance(r, v.len),
                                       <<TRUE, TRUE, TRUE, TRUE>>))
           [] OTHER -> Err("ErrInvalidFilterType", v.len)

\* impl Decodable for FilterType
FilterTypeDeserialize(r) == filter_type_of(r, u64_deserialize(r))

\* impl Encodable for FullSequence
FullSequenceSerialize(fs) ==
    VarIntSerialize(fs.group_id) \o VarIntSerialize(fs.object_id)

\* impl Encodable for FilterType
FilterTypeSerialize(ft) ==
    CASE ft.kind = "LatestGroup" -> VarIntSerialize(1)
      [] ft.kind = "LatestObject" -> VarIntSerialize(2)
      [] ft.kind = "AbsoluteStart" ->
           VarIntSerialize(3) \o FullSequenceSerialize(ft.start)
      [] ft.kind = "AbsoluteRange" ->
           VarIntSerialize(4) \o FullSequenceSerialize(ft.start)
               \o FullSequenceSerialize(ft.end)

-----------------------------------------------------------------------------
(* message/subscribe.rs                                                    *)

\* ParameterKey::AuthorizationInfo as u64
AuthorizationInfoKey == 2

\* Subscribe { ... }
Subscribe(sid, ta, tns, tn, ft, auth) ==
    [type |-> "Subscribe", subscribe_id |-> sid, track_alias |-> ta,
     track_namespace |-> tns, track_name |-> tn, filter_type |-> ft,
     authorization_info |-> auth]

\* Subscribe::deserialize, the loop over the parameters: r is the reader at
\* its start, m the message so far, l the bytes read, n the parameters left.
RECURSIVE subscribe_parameters(_, _, _, _)

\* one turn of the loop, from the key and the size read.  The value of the
\* AuthorizationInfo key is read; that of another key is not, and the reader
\* stays where the value starts.
subscribe_parameter(r, m, l, n, ks) ==
    IF ~ks.ok THEN ks
    ELSE IF Len(r) - (l + ks.len) < ks.v[2]
    THEN Err("ErrBufferTooShort", l + ks.len)
    ELSE IF ks.v[1] = AuthorizationInfoKey
    THEN IF m.authorization_info.some
         THEN Err("ErrParseError", l + ks.len)
         ELSE IF \E i \in (l + ks.len + 1)..(l + ks.len + ks.v[2]) : r[i] >= 128
         THEN Err("ErrInvalidString", l + ks.len + ks.v[2])
         ELSE subscribe_parameters(
                  r,
                  [m EXCEPT !.authorization_info =
                      Some(SubSeq(r, l + ks.len + 1, l + ks.len + ks.v[2]))],
                  l + ks.len + ks.v[2],
                  n - 1)
    ELSE subscribe_parameters(r, m, l + ks.len, n - 1)

subscribe_parameters(r, m, l, n) ==
    IF n = 0 THEN Ok(m, l)
    ELSE subscribe_parameter(r, m, l, n,
             deserialize_fields(Advance(r, l), <<TRUE, TRUE>>))

\* Subscribe::deserialize from the number of parameters read
subscribe_after_count(r, m, l, np) ==
    IF ~np.ok THEN np
    ELSE subscribe_parameters(r, m, l + np.len, np.v)

\* Subscribe::deserialize from the filter type read
subscribe_after_filter(r, m, l, ft) ==
    IF ~ft.ok THEN ft
    ELSE subscribe_after_count(r, [m EXCEPT !.filter_type = ft.v],
                               l + ft.len,
                               u64_deserialize(Advance(r, l + ft.len)))

\* Subscribe::deserialize from the track name read
subscribe_after_name(r, m, l, tn) ==
    IF ~tn.ok THEN tn
    ELSE subscribe_after_filter(r, [m EXCEPT !.track_name = tn.v],
                                l + tn.len,
                                FilterTypeDeserialize(Advance(r, l + tn.len)))

\* Subscribe::deserialize from the track namespace read
subscribe_after_namespace(r, m, l, tns) ==
    IF ~tns.ok THEN tns
    ELSE subscribe_after_name(r, [m EXCEPT !.track_namespace = tns.v],
                              l + tns.len,
                              StringDeserialize(Advance(r, l + tns.len)))

\* Subscribe::deserialize from the subscribe id and the track alias read
subscribe_after_ids(r, ids) ==
    IF ~ids.ok THEN ids
    ELSE subscribe_after_namespace(
             r,
             Subscribe(ids.v[1], ids.v[2], <<>>, <<>>, LatestGroup, None),
             ids.len,
             StringDeserialize(Advance(r, ids.len)))

\* impl Deserializer for Subscribe
SubscribeDeserialize(r) ==
    subscribe_after_ids(r, deserialize_fields(r, <<TRUE, TRUE>>))

\* Parameters::serialize of the one parameter Subscribe::serialize inserts:
\* the count, the key, the value as a string
ParametersSerialize(authorization_info) ==
    VarIntSerialize(1) \o VarIntSerialize(AuthorizationInfoKey)
        \o StringSerialize(authorization_info)

\* impl Serializer for Subscribe: without authorization_info nothing is
\* written after the filter type
SubscribeSerialize(m) ==
    VarIntSerialize(m.subscribe_id) \o VarIntSerialize(m.track_alias)
        \o StringSerialize(m.track_namespace) \o StringSerialize(m.track_name)
        \o FilterTypeSerialize(m.filter_type)
        \o (IF m.authorization_info.some
            THEN ParametersSerialize(m.authorization_info.v)
            ELSE <<>>)

-----------------------------------------------------------------------------
(* message/mod.rs: Message                                                 *)

\* the message decoded by its codec, its length counting the tag
MessageOf(mt, m) ==
    IF m.ok THEN Ok(m.v, mt.len + m.len) ELSE m

\* the codec of the type read.  Those of ANNOUNCE_CANCEL and SUBSCRIBE are
\* modelled: the inputs below never put the tag of another control message
\* where a message starts.
MessageAfter(r, mt) ==
    IF ~mt.ok THEN mt
    ELSE IF mt.v = "AnnounceCancel"
    THEN MessageOf(mt, AnnounceCancelDeserialize(Advance(r, mt.len)))
    ELSE IF mt.v = "Subscribe"
    THEN MessageOf(mt, SubscribeDeserialize(Advance(r, mt.len)))
    ELSE Err("ErrCodecNotModelled", mt.len)

\* Message::deserialize: the MessageType tag, then the codec of that type
MessageDeserialize(r) == MessageAfter(r, MessageTypeDeserialize(r))

\* Message::serialize
MessageSerialize(m) ==
    MessageTypeSerialize(m.type)
        \o (IF m.type = "Subscribe" THEN SubscribeSerialize(m)
            ELSE AnnounceCancelSerialize(m))

-----------------------------------------------------------------------------
(* message/message_parser.rs                                               *)

\* MessageParserEvent::ParsingError(code, reason)
ParsingErrorEvent(code, reason) ==
    [type |-> "ParsingError", code |-> code, reason |-> reason]

\* MessageParserEvent::ObjectMessage(header, payload, fin)
ObjectMessageEvent(header, payload, fin) ==
    [type |-> "ObjectMessage", header |-> header, payload |-> payload,
     is_final |-> fin]

\* ObjectHeader
ObjectHeader(sid, ta, gid, oid, oso, status, pref, opl) ==
    [subscribe_id |-> sid, track_alias |-> ta, group_id |-> gid,
     object_id |-> oid, object_send_order |-> oso, object_status |-> status,
     object_forwarding_preference |-> pref, object_payload_length |-> opl]

\* The parser as one value: the operators below take and return it.
Parser ==
    [no_more_data |-> no_more_data, parsing_error |-> parsing_error,
     buffered_message |-> buffered_message, object_metadata |-> object_metadata,
     payload_length_remaining |-> payload_length_remaining,
     parser_events |-> parser_events, panicked |-> panicked]

\* MessageParser::new
NewParser ==
    [no_more_data |-> FALSE, parsing_error |-> FALSE,
     buffered_message |-> <<>>, object_metadata |-> None,
     payload_length_remaining |-> 0, parser_events |-> <<>>,
     panicked |-> FALSE]

\* parse_error without its test of parsing_error: every violation is queued
parse_error_unguarded(p, error_code, error_reason) ==
    [p EXCEPT !.no_more_data = TRUE,
              !.parsing_error = TRUE,
              !.parser_events =
                  Append(@, ParsingErrorEvent(error_code, error_reason))]

\* parse_error that leaves no_more_data as it is
parse_error_keeps_open(p, error_code, error_reason) ==
    IF p.parsing_error THEN p
    ELSE [p EXCEPT !.parsing_error = TRUE,
                   !.parser_events =
                       Append(@, ParsingErrorEvent(error_code, error_reason))]

\* MessageParser::parse_error
parse_error(p, error_code, error_reason) ==
    IF p.parsing_error THEN p
    ELSE [p EXCEPT !.no_more_data = TRUE,
                   !.parsing_error = TRUE,
                   !.parser_events =
                       Append(@, ParsingErrorEvent(error_code, error_reason))]

\* MessageParser::object_stream_initialized
object_stream_initialized(p) == p.object_metadata.some

\* MessageParser::object_payload_in_progress
object_payload_in_progress(p) ==
    IF p.object_metadata.some
    THEN /\ p.object_metadata.v.object_status = "Normal"
         /\ \/ p.object_metadata.v.object_forwarding_preference = "Object"
            \/ p.object_metadata.v.object_forwarding_preference = "Datagram"
            \/ p.payload_length_remaining > 0
    ELSE FALSE

\* the ObjectHeader parse_object_header builds from the fields read
header_of(f, message_type) ==
    IF ~f.ok THEN f
    ELSE Ok(ObjectHeader(f.v[1], f.v[2], f.v[3], f.v[4], f.v[5],
                         ObjectStatusFrom(f.v[6]),
                         get_object_forwarding_preference(message_type),
                         None),
            f.len)

\* MessageParser::parse_object_header
parse_object_header(r, message_type) ==
    header_of(deserialize_fields(r,
                  << TRUE,
                     TRUE,
                     message_type # "StreamHeaderTrack",
                     /\ message_type # "StreamHeaderTrack"
                     /\ message_type # "StreamHeaderGroup",
                     TRUE,
                     \/ message_type = "ObjectStream"
                     \/ message_type = "ObjectDatagram" >>),
              message_type)

\* What process_object_payload hands back: the Result and the two fields it
\* was given by mutable reference.
PayloadResult(res, object_header, plr) ==
    [res |-> res, object_header |-> object_header,
     payload_length_remaining |-> plr]

\* process_object_payload, StreamHeaderTrack arm: the group id is stored
track_fields(object_header, f) ==
    IF ~f.ok THEN [res |-> f, object_header |-> object_header]
    ELSE [res |-> Ok(<<>>, f.len),
          object_header |->
              IF object_header.some
              THEN Some([object_header.v EXCEPT !.group_id = f.v[1]])
              ELSE object_header]

\* process_object_payload, StreamHeaderGroup arm: a status is read when the
\* payload length is zero
group_status(r, f3) ==
    IF f3.ok /\ f3.v[3] = 0
    THEN deserialize_fields(r, <<TRUE, TRUE, TRUE, TRUE>>)
    ELSE f3

\* group_fields that stores the object id as the send order too
group_fields_sets_send_order(object_header, f) ==
    IF ~f.ok THEN [res |-> f, object_header |-> object_header]
    ELSE [res |-> Ok(<<>>, f.len),
          object_header |->
              IF object_header.some
              THEN Some([object_header.v EXCEPT
                           !.group_id = f.v[1],
                           !.object_id = f.v[2],
                           !.object_send_order = f.v[2] + 1,
                           !.object_payload_length = Some(f.v[3]),
                           !.object_status =
                               ObjectStatusFrom(IF Len(f.v) = 4
                                                THEN f.v[4] ELSE 0)])
              ELSE object_header]

\* process_object_payload, StreamHeaderGroup arm: the fields are stored
group_fields(object_header, f) ==
    IF ~f.ok THEN [res |-> f, object_header |-> object_header]
    ELSE [res |-> Ok(<<>>, f.len),
          object_header |->
              IF object_header.some
              THEN Some([object_header.v EXCEPT
                           !.group_id = f.v[1],
                           !.object_id = f.v[2],
                           !.object_payload_length = Some(f.v[3]),
                           !.object_status =
                               ObjectStatusFrom(IF Len(f.v) = 4
                                                THEN f.v[4] ELSE 0)])
              ELSE object_header]

\* process_object_payload, the match on message_type: the Result of the
\* reads and the header as updated
object_fields(object_header, r, message_type) ==
    CASE message_type = "StreamHeaderTrack" ->
           track_fields(object_header, deserialize_fields(r, <<TRUE>>))
      [] message_type = "StreamHeaderGroup" ->
           group_fields(object_header,
               group_status(r, deserialize_fields(r, <<TRUE, TRUE, TRUE>>)))
      [] OTHER -> [res |-> Ok(<<>>, 0), object_header |-> object_header]

\* process_object_payload, for a Normal status: the payload drawn from the
\* `remaining` bytes of the reader
draw_payload(oh, total_len, remaining, plr, fin) ==
    LET has_length == oh.v.object_payload_length.some
        payload_length == IF oh.v.object_payload_length.some
                          THEN oh.v.object_payload_length.v ELSE 0
        received_complete_message ==
            fin \/ (oh.v.object_payload_length.some
                    /\ payload_length <= remaining)
        payload_to_draw ==
            IF received_complete_message /\ has_length
               /\ payload_length < remaining
            THEN payload_length ELSE remaining
    IN IF fin /\ has_length /\ payload_length > remaining
       THEN PayloadResult(ErrProtocolViolation("Received FIN mid-payload"),
                          oh, plr)
       ELSE PayloadResult(Ok(<<>>, total_len + payload_to_draw), oh,
                          IF has_length
                          THEN payload_length - payload_to_draw ELSE 0)

\* check_status without its test for the status Invalid
check_status_accepts_invalid(oh, total_len, remaining, plr, message_type, fin) ==
    IF ~oh.some THEN PayloadResult(Ok(<<>>, total_len), oh, plr)
    ELSE IF oh.v.object_status # "Normal"
    THEN IF /\ \/ message_type = "ObjectStream"
               \/ message_type = "ObjectDatagram"
            /\ remaining > 0
         THEN PayloadResult(
                  ErrProtocolViolation(
                      "Object with non-normal status has payload"), oh, plr)
         ELSE PayloadResult(Ok(<<>>, total_len), oh, plr)
    ELSE draw_payload(oh, total_len, remaining, plr, fin)

\* process_object_payload, the checks of the object status
check_status(oh, total_len, remaining, plr, message_type, fin) ==
    IF ~oh.some THEN PayloadResult(Ok(<<>>, total_len), oh, plr)
    ELSE IF oh.v.object_status = "Invalid"
    THEN PayloadResult(ErrProtocolViolation("Invalid object status"), oh, plr)
    ELSE IF oh.v.object_status # "Normal"
    THEN IF /\ \/ message_type = "ObjectStream"
               \/ message_type = "ObjectDatagram"
            /\ remaining > 0
         THEN PayloadResult(
                  ErrProtocolViolation(
                      "Object with non-normal status has payload"), oh, plr)
         ELSE PayloadResult(Ok(<<>>, total_len), oh, plr)
    ELSE draw_payload(oh, total_len, remaining, plr, fin)

\* process_object_payload, `?` on the reads
payload_after_fields(fld, plr, rlen, message_type, fin) ==
    IF ~fld.res.ok THEN PayloadResult(fld.res, fld.object_header, plr)
    ELSE check_status(fld.object_header, fld.res.len, rlen - fld.res.len,
                      plr, message_type, fin)

\* MessageParser::process_object_payload, after its assert!
process_object_payload(object_header, plr, r, message_type, fin) ==
    payload_after_fields(object_fields(object_header, r, message_type),
                         plr, Len(r), message_type, fin)

\* What process_message and process_object hand back: the parser as they
\* leave it and the Result.
Step(p, res) == [p |-> p, res |-> res]

\* object_outcome that reports no ProtocolViolation: the error goes back to
\* the parse loop unreported
object_outcome_unreported(p, processed_data, res) ==
    IF res.ok THEN Step(p, Ok(<<>>, processed_data + res.len))
    ELSE Step(p, res)

\* process_object, the match on what process_object_payload returned
object_outcome(p, processed_data, res) ==
    IF res.ok THEN Step(p, Ok(<<>>, processed_data + res.len))
    ELSE IF res.err = "ErrProtocolViolation"
    THEN Step(parse_error(p, "ProtocolViolation", res.reason), res)
    ELSE Step(p, res)

\* process_object: the two fields lent to process_object_payload are as it
\* left them
object_result(p, processed_data, pr) ==
    object_outcome(
        [p EXCEPT !.object_metadata = pr.object_header,
                  !.payload_length_remaining = pr.payload_length_remaining],
        processed_data, pr.res)

\* process_object from the call of process_object_payload, whose assert! on
\* payload_length_remaining is checked here
object_payload_step(p, processed_data, message_type, fin) ==
    IF p.payload_length_remaining # 0
    THEN Step([p EXCEPT !.panicked = TRUE], Err("panic", 0))
    ELSE object_result(p, processed_data,
             process_object_payload(
                 p.object_metadata, p.payload_length_remaining,
                 Advance(p.buffered_message, processed_data),
                 message_type, fin))

\* process_object, `?` on parse_object_header: the header is stored
object_after_header(p, hdr, message_type, fin) ==
    IF ~hdr.ok THEN Step(p, hdr)
    ELSE object_payload_step([p EXCEPT !.object_metadata = Some(hdr.v)],
                             hdr.len, message_type, fin)

\* MessageParser::process_object
process_object(p, message_type, fin) ==
    IF object_payload_in_progress(p)
    THEN Step([p EXCEPT !.panicked = TRUE], Err("panic", 0))
    ELSE IF ~object_stream_initialized(p)
    THEN object_after_header(
             p, parse_object_header(p.buffered_message, message_type),
             message_type, fin)
    ELSE object_payload_step(p, 0, message_type, fin)

\* control_message that reports a length of 0 for the message decoded
control_message_zero_length(p, m) ==
    IF ~m.ok THEN Step(p, m) ELSE Step(p, Ok(<<>>, 0))

\* process_message, a control message: it is decoded and dropped, its length
\* returned
control_message(p, m) ==
    IF ~m.ok THEN Step(p, m) ELSE Step(p, Ok(<<>>, m.len))

\* message_by_type without its test for OBJECT_DATAGRAM: the tag starts an
\* object like the other object tags
message_by_type_datagram_as_object(p, mt, fin) ==
    IF ~mt.ok THEN Step(p, mt)
    ELSE IF \/ mt.v = "ObjectDatagram"
            \/ mt.v = "ObjectStream"
            \/ mt.v = "StreamHeaderTrack"
            \/ mt.v = "StreamHeaderGroup"
    THEN process_object(p, mt.v, fin)
    ELSE control_message(p, MessageDeserialize(p.buffered_message))

\* process_message, from the MessageType read at the front of the accumulator
message_by_type(p, mt, fin) ==
    IF ~mt.ok THEN Step(p, mt)
    ELSE IF mt.v = "ObjectDatagram"
    THEN Step(parse_error(p, "ProtocolViolation",
                          "Received OBJECT_DATAGRAM on strea"),
              Err("ErrInvalidMessageType", 0))
    ELSE IF \/ mt.v = "ObjectStream"
            \/ mt.v = "StreamHeaderTrack"
            \/ mt.v = "StreamHeaderGroup"
    THEN process_object(p, mt.v, fin)
    ELSE control_message(p, MessageDeserialize(p.buffered_message))

\* MessageParser::process_datagram: the reader and the header are not looked
\* at, the Bytes returned are empty
process_datagram(r, object_header) == <<>>

\* MessageParser::process_message
process_message(p, fin) ==
    IF object_stream_initialized(p) /\ ~object_payload_in_progress(p)
    THEN process_object(
             p,
             get_message_type(p.object_metadata.v.object_forwarding_preference),
             fin)
    ELSE message_by_type(p, MessageTypeDeserialize(p.buffered_message), fin)

\* The parse loop of process_data (while buffered_message.has_remaining()).
RECURSIVE parse_loop(_, _)

\* loop_step with the test of fin made before that of the ceiling
loop_step_fin_first(s, fin) ==
    IF s.p.panicked THEN s.p
    ELSE IF s.res.ok
    THEN parse_loop([s.p EXCEPT !.buffered_message = Advance(@, s.res.len)],
                    fin)
    ELSE IF fin
    THEN parse_error(s.p, "ProtocolViolation", "FIN after incomplete message")
    ELSE IF Len(s.p.buffered_message) > MAX_MESSSAGE_HEADER_SIZE
    THEN parse_error(s.p, "InternalError",
                     "Cannot parse non-OBJECT messages > 2KB")
    ELSE s.p

\* loop_step without the test of the ceiling
loop_step_no_ceiling(s, fin) ==
    IF s.p.panicked THEN s.p
    ELSE IF s.res.ok
    THEN parse_loop([s.p EXCEPT !.buffered_message = Advance(@, s.res.len)],
                    fin)
    ELSE IF fin
    THEN parse_error(s.p, "ProtocolViolation", "FIN after incomplete message")
    ELSE s.p

\* the match on what process_message returned
loop_step(s, fin) ==
    IF s.p.panicked THEN s.p
    ELSE IF s.res.ok
    THEN parse_loop([s.p EXCEPT !.buffered_message = Advance(@, s.res.len)],
                    fin)
    ELSE IF Len(s.p.buffered_message) > MAX_MESSSAGE_HEADER_SIZE
    THEN parse_error(s.p, "InternalError",
                     "Cannot parse non-OBJECT messages > 2KB")
    ELSE IF fin
    THEN parse_error(s.p, "ProtocolViolation", "FIN after incomplete message")
    ELSE s.p

parse_loop(p, fin) ==
    IF Len(p.buffered_message) = 0 THEN p
    ELSE loop_step(process_message(p, fin), fin)

\* deliver_payload that closes no object of unknown length: the event is
\* never final and object_metadata is kept
deliver_payload_never_final(p, fin) ==
    IF object_payload_in_progress(p)
    THEN IF ~p.object_metadata.v.object_payload_length.some
         THEN [p EXCEPT
                 !.parser_events =
                     Append(@, ObjectMessageEvent(p.object_metadata.v,
                                                  p.buffered_message, FALSE)),
                 !.buffered_message = <<>>]
         ELSE IF Len(p.buffered_message) < p.payload_length_remaining
         THEN [p EXCEPT
                 !.payload_length_remaining = @ - Len(p.buffered_message),
                 !.parser_events =
                     Append(@, ObjectMessageEvent(p.object_metadata.v,
                                                  p.buffered_message, FALSE)),
                 !.buffered_message = <<>>]
         ELSE parse_loop(
                [p EXCEPT
                   !.parser_events =
                       Append(@, ObjectMessageEvent(
                                     p.object_metadata.v,
                                     Take(p.buffered_message,
                                          p.payload_length_remaining),
                                     TRUE)),
                   !.buffered_message = Advance(@, p.payload_length_remaining),
                   !.payload_length_remaining = 0],
                fin)
    ELSE parse_loop(p, fin)

\* deliver_payload that does not reset payload_length_remaining when the
\* payload is finished
deliver_payload_keeps_remaining(p, fin) ==
    IF object_payload_in_progress(p)
    THEN IF ~p.object_metadata.v.object_payload_length.some
         THEN [p EXCEPT
                 !.parser_events =
                     Append(@, ObjectMessageEvent(p.object_metadata.v,
                                                  p.buffered_message, fin)),
                 !.buffered_message = <<>>,
                 !.object_metadata = IF fin THEN None ELSE @]
         ELSE IF Len(p.buffered_message) < p.payload_length_remaining
         THEN [p EXCEPT
                 !.payload_length_remaining = @ - Len(p.buffered_message),
                 !.parser_events =
                     Append(@, ObjectMessageEvent(p.object_metadata.v,
                                                  p.buffered_message, FALSE)),
                 !.buffered_message = <<>>]
         ELSE parse_loop(
                [p EXCEPT
                   !.parser_events =
                       Append(@, ObjectMessageEvent(
                                     p.object_metadata.v,
                                     Take(p.buffered_message,
                                          p.payload_length_remaining),
                                     TRUE)),
                   !.buffered_message = Advance(@, p.payload_length_remaining)],
                fin)
    ELSE parse_loop(p, fin)

\* deliver_payload that takes the whole accumulator off
\* payload_length_remaining without comparing the two
deliver_payload_unguarded(p, fin) ==
    IF object_payload_in_progress(p)
    THEN IF ~p.object_metadata.v.object_payload_length.some
         THEN [p EXCEPT
                 !.parser_events =
                     Append(@, ObjectMessageEvent(p.object_metadata.v,
                                                  p.buffered_message, fin)),
                 !.buffered_message = <<>>,
                 !.object_metadata = IF fin THEN None ELSE @]
         ELSE [p EXCEPT
                 !.payload_length_remaining = @ - Len(p.buffered_message),
                 !.parser_events =
                     Append(@, ObjectMessageEvent(p.object_metadata.v,
                                                  p.buffered_message, FALSE)),
                 !.buffered_message = <<>>]
    ELSE parse_loop(p, fin)

\* deliver_payload that leaves the bytes of an object of unknown length in
\* the accumulator
deliver_payload_keeps_bytes(p, fin) ==
    IF object_payload_in_progress(p)
    THEN IF ~p.object_metadata.v.object_payload_length.some
         THEN [p EXCEPT
                 !.parser_events =
                     Append(@, ObjectMessageEvent(p.object_metadata.v,
                                                  p.buffered_message, fin)),
                 !.object_metadata = IF fin THEN None ELSE @]
         ELSE IF Len(p.buffered_message) < p.payload_length_remaining
         THEN [p EXCEPT
                 !.payload_length_remaining = @ - Len(p.buffered_message),
                 !.parser_events =
                     Append(@, ObjectMessageEvent(p.object_metadata.v,
                                                  p.buffered_message, FALSE)),
                 !.buffered_message = <<>>]
         ELSE parse_loop(
                [p EXCEPT
                   !.parser_events =
                       Append(@, ObjectMessageEvent(
                                     p.object_metadata.v,
                                     Take(p.buffered_message,
                                          p.payload_length_remaining),
                                     TRUE)),
                   !.buffered_message = Advance(@, p.payload_length_remaining),
                   !.payload_length_remaining = 0],
                fin)
    ELSE parse_loop(p, fin)

\* process_data once the chunk is in the accumulator: the payload of an
\* object in progress is delivered, then the parse loop runs.
deliver_payload(p, fin) ==
    IF object_payload_in_progress(p)
    THEN IF ~p.object_metadata.v.object_payload_length.some
         THEN [p EXCEPT
                 !.parser_events =
                     Append(@, ObjectMessageEvent(p.object_metadata.v,
                                                  p.buffered_message, fin)),
                 !.buffered_message = <<>>,
                 !.object_metadata = IF fin THEN None ELSE @]
         ELSE IF Len(p.buffered_message) < p.payload_length_remaining
         THEN [p EXCEPT
                 !.payload_length_remaining = @ - Len(p.buffered_message),
                 !.parser_events =
                     Append(@, ObjectMessageEvent(p.object_metadata.v,
                                                  p.buffered_message, FALSE)),
                 !.buffered_message = <<>>]
         ELSE parse_loop(
                [p EXCEPT
                   !.parser_events =
                       Append(@, ObjectMessageEvent(
                                     p.object_metadata.v,
                                     Take(p.buffered_message,
                                          p.payload_length_remaining),
                                     TRUE)),
                   !.buffered_message = Advance(@, p.payload_length_remaining),
                   !.payload_length_remaining = 0],
                fin)
    ELSE parse_loop(p, fin)

\* process_data, the check for early fin, then the chunk is put in the
\* accumulator
early_fin(p, buf, fin) ==
    IF /\ fin
       /\ object_payload_in_progress(p)
       /\ p.payload_length_remaining > Len(buf)
    THEN parse_error(p, "ProtocolViolation",
                     "End of stream before complete OBJECT PAYLOAD")
    ELSE IF fin /\ Len(p.buffered_message) # 0 /\ Len(buf) = 0
    THEN parse_error(p, "ProtocolViolation",
                     "End of stream before complete message")
    ELSE deliver_payload([p EXCEPT !.buffered_message = @ \o buf], fin)

\* process_data, `if fin { self.no_more_data = true; ...`
mark_fin(p, fin) ==
    IF fin THEN [p EXCEPT !.no_more_data = TRUE] ELSE p

\* process_data, its first statement: a call made after the end of the
\* stream reports an error, and the function goes on
after_end_check(p) ==
    IF p.no_more_data
    THEN parse_error(p, "ProtocolViolation", "Data after end of stream")
    ELSE p

\* MessageParser::process_data
process_data(p, buf, fin) ==
    early_fin(mark_fin(after_end_check(p), fin), buf, fin)

-----------------------------------------------------------------------------
(* The bytes a peer may send.                                              *)

\* n zero bytes
Pad(n) == [i \in 1..n |-> 0]

\* An OBJECT_STREAM message on the wire: the tag, the six header fields, the
\* payload up to the end of the stream.
WireObjectStream(o) ==
    MessageTypeSerialize("ObjectStream")
        \o VarIntSerialize(o.subscribe_id) \o VarIntSerialize(o.track_alias)
        \o VarIntSerialize(o.group_id) \o VarIntSerialize(o.object_id)
        \o VarIntSerialize(o.object_send_order) \o VarIntSerialize(o.status)
        \o o.payload

\* The same object as an OBJECT_DATAGRAM: the tag, the six header fields, the
\* payload up to the end of the datagram.
WireObjectDatagram(o) ==
    MessageTypeSerialize("ObjectDatagram")
        \o VarIntSerialize(o.subscribe_id) \o VarIntSerialize(o.track_alias)
        \o VarIntSerialize(o.group_id) \o VarIntSerialize(o.object_id)
        \o VarIntSerialize(o.object_send_order) \o VarIntSerialize(o.status)
        \o o.payload

\* A STREAM_HEADER_GROUP stream on the wire: the tag, the four header fields.
WireStreamHeaderGroup(o) ==
    MessageTypeSerialize("StreamHeaderGroup")
        \o VarIntSerialize(o.subscribe_id) \o VarIntSerialize(o.track_alias)
        \o VarIntSerialize(o.group_id) \o VarIntSerialize(o.object_send_order)

\* One object of such a stream: group id, object id, payload length, a status
\* when the length is zero, the payload.
WireGroupObject(o) ==
    VarIntSerialize(o.group_id) \o VarIntSerialize(o.object_id)
        \o VarIntSerialize(Len(o.payload))
        \o (IF Len(o.payload) = 0 THEN VarIntSerialize(o.status) ELSE <<>>)
        \o o.payload

\* A STREAM_HEADER_GROUP stream that carries one object.
WireGroupStream(o) == WireStreamHeaderGroup(o) \o WireGroupObject(o)

\* A STREAM_HEADER_TRACK stream: the tag, the three header fields, then the
\* group id of the object and its payload.
WireTrackStream(o) ==
    MessageTypeSerialize("StreamHeaderTrack")
        \o VarIntSerialize(o.subscribe_id) \o VarIntSerialize(o.track_alias)
        \o VarIntSerialize(o.object_send_order)
        \o VarIntSerialize(o.group_id) \o o.payload

\* The objects sent.  Field values and payload bytes are such that no byte
\* is the tag of a control message whose codec is not modelled.
ObjectStreamCases ==
    { [subscribe_id |-> 1, track_alias |-> 2, group_id |-> 12, object_id |-> 15,
       object_send_order |-> oso, status |-> st, payload |-> pl] :
         oso \in {0, 1, 15}, st \in {0, 1}, pl \in {<<>>, <<15, 0>>} }

GroupStreamCases ==
    { [subscribe_id |-> 1, track_alias |-> 2, group_id |-> 12,
       object_send_order |-> 0, object_id |-> c[1], status |-> c[2],
       payload |-> c[3]] :
         c \in { <<0, 1, <<>>>>,
                 <<0, 0, <<1>>>>,
                 <<2, 0, <<15, 15>>>>,
                 <<1, 0, <<15, 15, 1, 15>>>>,
                 <<1, 0, <<15, 15, 1, 15, 15>>>> } }

TrackStreamCases ==
    { [subscribe_id |-> 1, track_alias |-> 2, group_id |-> 12,
       object_send_order |-> 0, payload |-> <<15, 15>>] }

\* Control messages, alone and in a row.
AnnounceCancelFoo == [type |-> "AnnounceCancel", track_namespace |-> <<102, 111>>]

ControlStreams ==
    { MessageSerialize(AnnounceCancelFoo),
      MessageSerialize(AnnounceCancelFoo) \o MessageSerialize(AnnounceCancelFoo),
      MessageSerialize(AnnounceCancelFoo) \o <<1, 0>>,
      MessageSerialize(AnnounceCancelFoo) \o <<2, 0>> }

\* Byte sequences laid out the way parse_object_header reads them (it starts
\* at the first byte of the tag).
RawStreams ==
    { <<64, 81, 1, 2, 0, 0, 1, 3, 15, 15, 15>>,
      <<64, 81, 1, 2, 0, 0, 1, 1, 15, 0, 2, 0, 1>>,
      <<64, 80, 1, 2, 0, 15, 15>>,
      <<0, 1, 2, 0, 0, 0, 15, 15>> }

\* Objects of a group stream, laid out the same way, whose status is not one
\* of the five known ones.
StatusStreams ==
    { <<64, 81, 1, 2, 0, 0, 1, 0, 15>>,
      <<64, 81, 1, 2, 0, 0, 1, 0, 15, 15>> }

\* SUBSCRIBE messages: subscribe id 1, track alias 2, an empty namespace, the
\* name "o", with and without a filter sequence and an authorization_info.
SubscribeCases ==
    { Subscribe(1, 2, <<>>, <<111>>, ft, auth) :
        ft \in {LatestGroup, AbsoluteStart(FullSequence(12, 15))},
        auth \in {None, Some(<<98>>)} }

\* One parameter on the wire: key, length of the value, value.
WireParameter(key, value) == VarIntSerialize(key) \o StringSerialize(value)

\* A SUBSCRIBE on the wire with the parameter block given: count parameters
\* in the bytes of block.
WireSubscribe(count, block) ==
    MessageTypeSerialize("Subscribe") \o VarIntSerialize(1)
        \o VarIntSerialize(2) \o StringSerialize(<<>>) \o StringSerialize(<<>>)
        \o FilterTypeSerialize(LatestGroup) \o VarIntSerialize(count) \o block

\* A key no parameter of SUBSCRIBE has, and the value sent with it.
UnknownKey == 5
UnknownParameter == WireParameter(UnknownKey, <<15>>)

\* The values of AuthorizationInfo sent twice.
AuthorizationValues == {<<98>>, <<99>>}

\* AuthorizationInfo twice, next to each other.
AdjacentDuplicateStreams ==
    { WireSubscribe(2, WireParameter(AuthorizationInfoKey, a)
                           \o WireParameter(AuthorizationInfoKey, b)) :
        a \in AuthorizationValues, b \in AuthorizationValues }

\* AuthorizationInfo twice, a parameter of an unknown key before, between or
\* after the two.
SeparatedDuplicateStreams ==
    { WireSubscribe(3, UnknownParameter
                           \o WireParameter(AuthorizationInfoKey, <<98>>)
                           \o WireParameter(AuthorizationInfoKey, <<99>>)),
      WireSubscribe(3, WireParameter(AuthorizationInfoKey, <<98>>)
                           \o UnknownParameter
                           \o WireParameter(AuthorizationInfoKey, <<99>>)),
      WireSubscribe(3, WireParameter(AuthorizationInfoKey, <<98>>)
                           \o WireParameter(AuthorizationInfoKey, <<99>>)
                           \o UnknownParameter) }

DuplicateStreams == AdjacentDuplicateStreams \cup SeparatedDuplicateStreams

\* A parameter of an unknown key: alone, before and after AuthorizationInfo.
UnknownKeyStreams ==
    { WireSubscribe(1, UnknownParameter),
      WireSubscribe(2, UnknownParameter
                           \o WireParameter(AuthorizationInfoKey, <<98>>)),
      WireSubscribe(2, WireParameter(AuthorizationInfoKey, <<98>>)
                           \o UnknownParameter) }

\* A SUBSCRIBE whose subscribe id takes 8 bytes and whose track alias
\* takes 4.
WideSubscribe ==
    Subscribe(Pow2_30, Pow2_14, <<>>, <<>>, LatestGroup, Some(<<>>))

\* A SUBSCRIBE whose filter type is none of the four.
InvalidFilterStream ==
    MessageTypeSerialize("Subscribe") \o VarIntSerialize(1)
        \o VarIntSerialize(2) \o StringSerialize(<<>>) \o StringSerialize(<<>>)
        \o VarIntSerialize(7)

SubscribeStreams ==
    {MessageSerialize(m) : m \in SubscribeCases}
        \cup DuplicateStreams \cup UnknownKeyStreams \cup {InvalidFilterStream}
        \cup {MessageSerialize(WideSubscribe)}

\* Unstructured input: every sequence of GarbageLen of these bytes.
GarbageBytes == {0, 1, 2, 12, 15}
GarbageStreams == [1..GarbageLen -> GarbageBytes]

\* Inputs longer than the header ceiling: a control message that announces a
\* string of 2100 bytes, an OBJECT_DATAGRAM tag, an unknown tag, each
\* followed by zero bytes.
LongLen == MAX_MESSSAGE_HEADER_SIZE + 2
LongStreams ==
    { <<12, 72, 52>> \o Pad(LongLen - 3),
      <<1>> \o Pad(LongLen - 1),
      <<2>> \o Pad(LongLen - 1) }

Streams ==
    {WireObjectStream(o) : o \in ObjectStreamCases}
        \cup {WireGroupStream(o) : o \in GroupStreamCases}
        \cup {WireTrackStream(o) : o \in TrackStreamCases}
        \cup ControlStreams \cup RawStreams \cup GarbageStreams \cup LongStreams
        \cup StatusStreams \cup SubscribeStreams

\* The sizes of the next chunk.
ChunkSizes ==
    { n \in 0..Len(input) : Len(input) <= MaxShort \/ Len(input) - n <= MaxTail }

-----------------------------------------------------------------------------
(* The state machine.                                                      *)

\* MessageParser::new, and the peer's choice of what to send
Init ==
    /\ no_more_data = NewParser.no_more_data
    /\ parsing_error = NewParser.parsing_error
    /\ buffered_message = NewParser.buffered_message
    /\ object_metadata = NewParser.object_metadata
    /\ payload_length_remaining = NewParser.payload_length_remaining
    /\ parser_events = NewParser.parser_events
    /\ panicked = NewParser.panicked
    /\ stream \in Streams
    /\ input = stream
    /\ polled = <<>>

\* the parser's fields become those of q
Becomes(q) ==
    /\ no_more_data' = q.no_more_data
    /\ parsing_error' = q.parsing_error
    /\ buffered_message' = q.buffered_message
    /\ object_metadata' = q.object_metadata
    /\ payload_length_remaining' = q.payload_length_remaining
    /\ parser_events' = q.parser_events
    /\ panicked' = q.panicked

\* process_data(chunk, fin), the chunk being the next n bytes of the input
ProcessData(n, fin) ==
    /\ ~panicked
    /\ Len(polled) + Len(parser_events) < MaxEvents
    /\ Becomes(process_data(Parser, Take(input, n), fin))
    /\ input' = Advance(input, n)
    /\ UNCHANGED <<stream, polled>>

\* poll_event with pop_back in the place of pop_front
PollEventNewestFirst ==
    /\ ~panicked
    /\ IF Len(parser_events) = 0
       THEN UNCHANGED <<parser_events, polled>>
       ELSE /\ parser_events' = Take(parser_events, Len(parser_events) - 1)
            /\ polled' = Append(polled, parser_events[Len(parser_events)])
    /\ UNCHANGED <<no_more_data, parsing_error, buffered_message,
                   object_metadata, payload_length_remaining, panicked,
                   stream, input>>

\* poll_event
PollEvent ==
    /\ ~panicked
    /\ IF Len(parser_events) = 0
       THEN UNCHANGED <<parser_events, polled>>
       ELSE /\ parser_events' = Tail(parser_events)
            /\ polled' = Append(polled, Head(parser_events))
    /\ UNCHANGED <<no_more_data, parsing_error, buffered_message,
                   object_metadata, payload_length_remaining, panicked,
                   stream, input>>

Next ==
    \/ \E n \in ChunkSizes, fin \in BOOLEAN : ProcessData(n, fin)
    \/ PollEvent

Spec == Init /\ [][Next]_vars

-----------------------------------------------------------------------------
(* Events, as the caller sees them.                                        *)

\* every event pushed so far, in the order pushed
History == polled \o parser_events

\* the events a step pushes
NewEvents ==
    SubSeq(polled' \o parser_events', Len(History) + 1,
           Len(polled' \o parser_events'))

\* the bytes a process_data step is given
Chunk == Take(input, Len(input) - Len(input'))

IsParsingError(e) == e.type = "ParsingError"
IsObjectMessage(e) == e.type = "ObjectMessage"
IsControlEvent(e) == ~IsParsingError(e) /\ ~IsObjectMessage(e)

ParsingErrors(evs) == SelectSeq(evs, IsParsingError)
ObjectMessages(evs) == SelectSeq(evs, IsObjectMessage)
ControlEvents(evs) == SelectSeq(evs, IsControlEvent)

IsFinal(e) == IsObjectMessage(e) /\ e.is_final
FinalMessages(evs) == SelectSeq(evs, IsFinal)

IsProtocolViolation(e) == IsParsingError(e) /\ e.code = "ProtocolViolation"
IsInternalError(e) == IsParsingError(e) /\ e.code = "InternalError"

\* the payloads of object events, one after the other
RECURSIVE ConcatPayload(_)
ConcatPayload(evs) ==
    IF evs = <<>> THEN <<>>
    ELSE Head(evs).payload \o ConcatPayload(Tail(evs))

\* MessageParserEvent::AnnounceCancelMessage(m)
AnnounceCancelMessageEvent(m) == [type |-> "AnnounceCancelMessage", message |-> m]

-----------------------------------------------------------------------------
(* C1: chunked reassembly.                                                 *)

\* The streams that are one or more complete messages or objects.
CompleteStreams ==
    {WireObjectStream(o) : o \in ObjectStreamCases}
        \cup {WireGroupStream(o) : o \in GroupStreamCases}
        \cup {WireTrackStream(o) : o \in TrackStreamCases}
        \cup { MessageSerialize(AnnounceCancelFoo),
               MessageSerialize(AnnounceCancelFoo)
                   \o MessageSerialize(AnnounceCancelFoo) }

\* s fed to parser p one byte per process_data call, fin on the last byte
RECURSIVE feed_bytewise(_, _)
feed_bytewise(p, s) ==
    IF Len(s) = 0 THEN p
    ELSE IF Len(s) = 1 THEN process_data(p, s, TRUE)
    ELSE feed_bytewise(process_data(p, Take(s, 1), FALSE), Advance(s, 1))

\* What the non-error events of a queue come to: the control events in
\* order, the object headers, the object payload, the final flags.
Decoded(evs) ==
    [control |-> ControlEvents(evs),
     headers |-> { ObjectMessages(evs)[i].header :
                     i \in DOMAIN ObjectMessages(evs) },
     payload |-> ConcatPayload(ObjectMessages(evs)),
     finals  |-> Len(FinalMessages(evs))]

\* C1: a complete stream fed to a fresh parser one byte per call, fin on the
\* last byte, queues the same non-error events (variants, headers,
\* concatenated payload, final flag) as the stream fed in one call.
ChunkedReassembly ==
    stream \in CompleteStreams =>
        Decoded(feed_bytewise(NewParser, stream).parser_events)
            = Decoded(process_data(NewParser, stream, TRUE).parser_events)

-----------------------------------------------------------------------------
(* C2: one ParsingError at most.                                           *)

\* C2: over any sequence of process_data calls at most one ParsingError
\* event is ever pushed; later violations are suppressed.
AtMostOneParsingError == Len(ParsingErrors(History)) <= 1

\* A call after a clean fin was reported as "Data after end of stream"; the
\* OBJECT_DATAGRAM tag that the same call then found at the front of the
\* accumulator was a second violation, and it was not reported.
SecondViolationSuppressed ==
    /\ Len(ParsingErrors(History)) = 1
    /\ ParsingErrors(History)[1].reason = "Data after end of stream"
    /\ ~object_metadata.some
    /\ buffered_message # <<>>
    /\ buffered_message[1] = 1

-----------------------------------------------------------------------------
(* C3, C4: calls on a terminated parser.                                   *)

\* C3: once the parser is terminated, a process_data call pushes no
\* ObjectMessage and no control event; it may push one
\* ParsingError(ProtocolViolation), and only if no ParsingError was pushed
\* before.
NoEventsAfterTermination ==
    [][ no_more_data =>
          \/ NewEvents = <<>>
          \/ /\ Len(NewEvents) = 1
             /\ IsProtocolViolation(NewEvents[1])
             /\ ParsingErrors(History) = <<>> ]_vars

\* C4: a process_data call on a terminated parser leaves buffered_message,
\* object_metadata and payload_length_remaining as they were.
TerminatedCallIgnored ==
    [][ no_more_data =>
          UNCHANGED <<buffered_message, object_metadata,
                      payload_length_remaining>> ]_vars

-----------------------------------------------------------------------------
(* C5: control messages.                                                   *)

\* C5: when process_data is called on a non-terminated parser that is not
\* in an object stream, and the accumulator with the chunk starts with a
\* complete control message, the call pushes the event of that message.
ControlMessageEmitted ==
    [][ ( /\ Chunk # <<>>
          /\ ~no_more_data
          /\ ~object_metadata.some
          /\ MessageDeserialize(buffered_message \o Chunk).ok )
        => /\ NewEvents # <<>>
           /\ NewEvents[1] = AnnounceCancelMessageEvent(
                                 MessageDeserialize(buffered_message \o Chunk).v)
      ]_vars

-----------------------------------------------------------------------------
(* C6, C10: an object of a STREAM_HEADER_GROUP stream.                     *)

GroupWireStreams == {WireGroupStream(o) : o \in GroupStreamCases}

\* the object the peer sends, when the stream is one of GroupWireStreams
GroupSent == CHOOSE o \in GroupStreamCases : WireGroupStream(o) = stream

\* C6: when fin arrives after the declaration of a payload of L bytes and
\* before the L-th payload byte, a ParsingError(ProtocolViolation) is queued
\* and no ObjectMessage of the object is final.  (A step that terminates the
\* parser is a call with fin, or one that reports an error.)
MidPayloadTruncation ==
    [][ ( /\ stream \in GroupWireStreams
          /\ Len(GroupSent.payload) > 0
          /\ ~no_more_data
          /\ no_more_data'
          /\ Len(input') > 0
          /\ Len(input') <= Len(GroupSent.payload) )
        => /\ \E i \in DOMAIN (polled' \o parser_events') :
                  IsProtocolViolation((polled' \o parser_events')[i])
           /\ FinalMessages(polled' \o parser_events') = <<>>
      ]_vars

\* C10: when the L payload bytes of the object have all arrived and no error
\* was reported, the payloads of the ObjectMessage events, in queue order,
\* make up the L bytes, and one event, the last, is final.
PayloadCompleteness ==
    ( /\ stream \in GroupWireStreams
      /\ Len(GroupSent.payload) > 0
      /\ input = <<>>
      /\ ~parsing_error )
    => /\ ConcatPayload(ObjectMessages(History)) = GroupSent.payload
       /\ Len(FinalMessages(History)) = 1
       /\ IsFinal(History[Len(History)])

-----------------------------------------------------------------------------
(* C7: OBJECT_DATAGRAM on a stream.                                        *)

\* what is left of acc once the complete control messages at its front are
\* taken off
RECURSIVE AfterControl(_)
AfterControl(acc) ==
    IF MessageDeserialize(acc).ok
    THEN AfterControl(Advance(acc, MessageDeserialize(acc).len))
    ELSE acc

\* the byte 0x01, which decodes as the tag ObjectDatagram, is where the call
\* looks for a message type
DatagramTagAtFront ==
    /\ Chunk # <<>>
    /\ ~no_more_data
    /\ ~object_metadata.some
    /\ AfterControl(buffered_message \o Chunk) # <<>>
    /\ AfterControl(buffered_message \o Chunk)[1] = 1

\* C7: a non-terminated parser in Idle state that finds the tag
\* ObjectDatagram at the front of the accumulator queues
\* ParsingError(ProtocolViolation), is terminated, and queues no
\* ObjectMessage, whatever fin and the following bytes are.
DatagramOnStreamIsFatal ==
    [][ DatagramTagAtFront
        => /\ no_more_data'
           /\ Len(ParsingErrors(NewEvents)) = 1
           /\ IsProtocolViolation(ParsingErrors(NewEvents)[1])
           /\ ObjectMessages(NewEvents) = <<>>
      ]_vars

\* The tag was found and reported, after one byte or after hundreds.
DatagramReported ==
    /\ no_more_data
    /\ Len(ParsingErrors(History)) = 1
    /\ ParsingErrors(History)[1].reason = "Received OBJECT_DATAGRAM on strea"
    /\ ObjectMessages(History) = <<>>
    /\ buffered_message # <<>>
    /\ buffered_message[1] = 1

-----------------------------------------------------------------------------
(* C8, C9: the header ceiling.                                             *)

\* A call of a non-terminated parser has returned with more than the ceiling
\* in the accumulator: its parse attempt has failed (a call that returns
\* before the parse loop leaves the accumulator as it was or empty).
FailedAboveCeiling ==
    /\ ~no_more_data
    /\ Len(buffered_message') > MAX_MESSSAGE_HEADER_SIZE

\* the violations process_message reports itself
ReportedByParse ==
    { "Received OBJECT_DATAGRAM on strea", "Invalid object status",
      "Object with non-normal status has payload", "Received FIN mid-payload" }

\* C8 as stated: a parse attempt that fails with more than 2048 bytes in the
\* accumulator queues ParsingError(InternalError) and terminates the parser,
\* with fin or without.
CeilingIsInternalError ==
    [][ FailedAboveCeiling
        => /\ no_more_data'
           /\ Len(ParsingErrors(NewEvents)) = 1
           /\ IsInternalError(ParsingErrors(NewEvents)[1])
      ]_vars

\* C8, amended: the parser is terminated and one ParsingError is queued; it
\* is InternalError unless the failed attempt has reported a protocol
\* violation itself, and it is never the violation of the fin check.
CeilingBeforeFin ==
    [][ FailedAboveCeiling
        => /\ no_more_data'
           /\ Len(ParsingErrors(NewEvents)) = 1
           /\ \/ IsInternalError(ParsingErrors(NewEvents)[1])
              \/ /\ IsProtocolViolation(ParsingErrors(NewEvents)[1])
                 /\ ParsingErrors(NewEvents)[1].reason \in ReportedByParse
      ]_vars

\* InternalError was queued for an accumulator above the ceiling.
CeilingReported ==
    /\ no_more_data
    /\ Len(buffered_message) > MAX_MESSSAGE_HEADER_SIZE
    /\ Len(ParsingErrors(History)) = 1
    /\ IsInternalError(ParsingErrors(History)[1])

\* C9: when process_data has returned and the parser is not terminated, the
\* accumulator holds at most 2048 bytes.
AccumulatorBounded ==
    ~no_more_data => Len(buffered_message) <= MAX_MESSSAGE_HEADER_SIZE

\* A peer has filled the accumulator to the ceiling with an incomplete
\* message.
AccumulatorAtCeiling ==
    /\ ~no_more_data
    /\ Len(buffered_message) = MAX_MESSSAGE_HEADER_SIZE

-----------------------------------------------------------------------------
(* C11: an object that runs to the end of the stream.                      *)

\* An object with no explicit payload length is in progress.
RunToEndInProgress ==
    /\ object_payload_in_progress(Parser)
    /\ ~object_metadata.v.object_payload_length.some

\* the events q holds beyond those of the parser now
PushedBy(q) ==
    SubSeq(q.parser_events, Len(parser_events) + 1, Len(q.parser_events))

\* q, the parser after process_data(chunk, fin), has queued one ObjectMessage,
\* with the buffered bytes and with fin as its final flag; the object is
\* closed when fin is set and in progress when it is not
RunToEndCall(q, chunk, fin) ==
    /\ ObjectMessages(PushedBy(q))
           = << ObjectMessageEvent(object_metadata.v,
                                   buffered_message \o chunk, fin) >>
    /\ fin => q.object_metadata = None
    /\ ~fin => /\ q.object_metadata = object_metadata
               /\ object_payload_in_progress(q)

-----------------------------------------------------------------------------
(* C12: poll_event.                                                        *)

\* C12: a poll_event that returns an event returns the oldest one queued,
\* removes it and changes nothing else of the parser; with an empty queue
\* nothing is returned; and no step changes the order of the events pushed.
PollOldestFirst ==
    [][ /\ polled' # polled =>
            /\ parser_events # <<>>
            /\ polled' = Append(polled, Head(parser_events))
            /\ parser_events' = Tail(parser_events)
            /\ UNCHANGED <<no_more_data, parsing_error, buffered_message,
                           object_metadata, payload_length_remaining>>
        /\ parser_events = <<>> /\ input' = input => polled' = polled
        /\ Len(polled' \o parser_events') >= Len(History)
        /\ SubSeq(polled' \o parser_events', 1, Len(History)) = History
      ]_vars

\* Two different events were polled while a third was waiting.
PolledInOrder ==
    /\ Len(polled) >= 2
    /\ polled[1] # polled[2]
    /\ parser_events # <<>>

-----------------------------------------------------------------------------
(* C13: object status validation.                                          *)

\* the header of an object whose status is none of the known ones
InvalidStatus(m) == m.some /\ m.v.object_status = "Invalid"

\* the header of an OBJECT_STREAM object whose status is known and not Normal
NonNormalObject(m) ==
    /\ m.some
    /\ m.v.object_forwarding_preference = "Object"
    /\ m.v.object_status \notin {"Normal", "Invalid"}

\* bytes follow the header of the object at the front of acc
BytesAfterHeader(acc) ==
    Len(acc) > parse_object_header(acc, "ObjectStream").len

\* A step decodes a status that is Invalid; or an OBJECT_STREAM object of
\* non-Normal status is followed by a byte, one that comes in a later chunk
\* or one that comes in the chunk of the header.
StatusViolation ==
    \/ object_metadata' # object_metadata /\ InvalidStatus(object_metadata')
    \/ NonNormalObject(object_metadata) /\ Chunk # <<>>
    \/ /\ ~object_metadata.some
       /\ NonNormalObject(object_metadata')
       /\ BytesAfterHeader(AfterControl(buffered_message \o Chunk))

\* The validation taken by the status the parser has decoded: an object whose
\* decoded status is Invalid, and an OBJECT_STREAM object decoded with a
\* non-Normal status that is followed by a byte, make a non-terminated parser
\* queue ParsingError(ProtocolViolation) and terminate.
StatusValidation ==
    [][ (~no_more_data /\ StatusViolation)
        => /\ no_more_data'
           /\ Len(ParsingErrors(NewEvents)) = 1
           /\ IsProtocolViolation(ParsingErrors(NewEvents)[1])
      ]_vars

\* An object of a group stream was rejected for its status.
InvalidStatusReported ==
    /\ InvalidStatus(object_metadata)
    /\ object_metadata.v.object_forwarding_preference = "Group"
    /\ Len(ParsingErrors(History)) = 1
    /\ ParsingErrors(History)[1].reason = "Invalid object status"

\* The OBJECT_STREAM objects a peer sends with a non-Normal status and, all
\* the same, payload bytes.
NonNormalWithPayload ==
    { WireObjectStream(o) :
        o \in { c \in ObjectStreamCases : c.status # 0 /\ c.payload # <<>> } }

\* the object the peer sends, when the stream is one of ObjectStreamCases
ObjectSent == CHOOSE o \in ObjectStreamCases : WireObjectStream(o) = stream

\* C13: an OBJECT_STREAM object whose status is non-Normal and which is
\* followed by at least one further byte makes a non-terminated parser queue
\* ParsingError(ProtocolViolation) and terminate: once the call that supplies
\* the first payload byte has returned, the parser is terminated and a
\* ProtocolViolation is queued.
NonNormalPayloadRejected ==
    [][ ( /\ stream \in NonNormalWithPayload
          /\ ~no_more_data
          /\ Len(input') < Len(ObjectSent.payload) )
        => /\ no_more_data'
           /\ \E i \in DOMAIN (polled' \o parser_events') :
                  IsProtocolViolation((polled' \o parser_events')[i])
      ]_vars

-----------------------------------------------------------------------------
(* C14: decode failures that more bytes cannot mend.                       *)

\* the error of the decode at the front of acc, "none" when there is none or
\* when an object starts there
FrontDecodeError(acc) ==
    IF ~MessageTypeDeserialize(acc).ok THEN MessageTypeDeserialize(acc).err
    ELSE IF MessageTypeDeserialize(acc).v
              \in {"ObjectStream", "ObjectDatagram", "StreamHeaderTrack",
                   "StreamHeaderGroup"}
    THEN "none"
    ELSE IF MessageDeserialize(acc).ok THEN "none"
    ELSE MessageDeserialize(acc).err

\* the errors that are not a lack of bytes: an unknown message type, a
\* parameter that appears twice, an unknown filter type
StructuralErrors ==
    {"ErrInvalidMessageType", "ErrParseError", "ErrInvalidFilterType"}

\* C14: a decode failure that is not caused by missing bytes terminates the
\* parser and queues one ParsingError in the same call, with fin or without;
\* the bytes are not kept for a later call.
StructuralFailureIsFatal ==
    [][ ( /\ Chunk # <<>>
          /\ ~no_more_data
          /\ ~object_metadata.some
          /\ FrontDecodeError(AfterControl(buffered_message \o Chunk))
                 \in StructuralErrors )
        => /\ no_more_data'
           /\ Len(ParsingErrors(NewEvents)) = 1
      ]_vars

-----------------------------------------------------------------------------
(* C15: datagrams.                                                         *)

\* the header of object o sent as a datagram
DatagramHeader(o) ==
    ObjectHeader(o.subscribe_id, o.track_alias, o.group_id, o.object_id,
                 o.object_send_order, ObjectStatusFrom(o.status), "Datagram",
                 None)

\* C15: process_datagram, given a complete datagram of an OBJECT_DATAGRAM
\* header and payload bytes, returns those payload bytes.  The object is the
\* one the peer sends on the stream, sent as a datagram.
DatagramPayloadReturned ==
    stream \in {WireObjectStream(o) : o \in ObjectStreamCases} =>
        process_datagram(WireObjectDatagram(ObjectSent),
                         DatagramHeader(ObjectSent))
            = ObjectSent.payload

-----------------------------------------------------------------------------
(* C16 *)

\* The control messages encoded and decoded.
ControlMessageCases == {AnnounceCancelFoo} \cup SubscribeCases

\* d is the decoding of the encoding of m: the same message, the length of
\* the encoding, and the same bytes when encoded again.
RoundTrip(m, d) ==
    /\ d.ok
    /\ d.v = m
    /\ d.len = Len(MessageSerialize(m))
    /\ MessageSerialize(d.v) = MessageSerialize(m)

\* C16: for every control message, a Subscribe without authorization_info
\* included, decoding the bytes of its encoding yields the same message and
\* the number of bytes encoded, and encoding that message again yields the
\* same bytes.
ControlMessageRoundTrip ==
    \A m \in ControlMessageCases :
        stream = MessageSerialize(m) => RoundTrip(m, MessageDeserialize(stream))

\* The round trip holds for ANNOUNCE_CANCEL and for a SUBSCRIBE that has an
\* authorization_info.
RoundTripWithParameters ==
    \A m \in ControlMessageCases :
        (stream = MessageSerialize(m)
            /\ (m.type = "Subscribe" => m.authorization_info.some))
        => RoundTrip(m, MessageDeserialize(stream))

-----------------------------------------------------------------------------
(* C17 *)

\* C17: decoding a SUBSCRIBE whose parameter block holds the
\* AuthorizationInfo key twice returns an error, whatever the two values and
\* wherever the two entries are in the block.
DuplicateAuthorizationRejected ==
    stream \in DuplicateStreams => ~MessageDeserialize(stream).ok

\* When nothing but the two entries is in the block, of whatever values, the
\* decode fails with ErrParseError.
AdjacentDuplicateRejected ==
    stream \in AdjacentDuplicateStreams
        => /\ ~MessageDeserialize(stream).ok
           /\ MessageDeserialize(stream).err = "ErrParseError"

-----------------------------------------------------------------------------
(* C18 *)

\* d decodes the SUBSCRIBE s of UnknownKeyStreams with the parameter of the
\* unknown key left out: all of s is consumed, and the authorization_info is
\* the one sent, if one was.
UnknownParameterSkipped(s, d) ==
    /\ d.ok
    /\ d.len = Len(s)
    /\ d.v.authorization_info =
           IF s = WireSubscribe(1, UnknownParameter) THEN None
           ELSE Some(<<98>>)

\* C18: decoding a SUBSCRIBE whose parameter block holds a parameter of an
\* unknown key succeeds; the bytes of its value are skipped, the other
\* parameters are decoded from where they are, and the length reported covers
\* the whole message.
UnknownKeyIgnored ==
    stream \in UnknownKeyStreams
        => UnknownParameterSkipped(stream, MessageDeserialize(stream))

-----------------------------------------------------------------------------
(* C19 *)

\* enum MessageType: the 20 variants
MessageTypes ==
    { "ObjectStream", "ObjectDatagram", "SubscribeUpdate", "Subscribe",
      "SubscribeOk", "SubscribeError", "Announce", "AnnounceOk",
      "AnnounceError", "UnAnnounce", "UnSubscribe", "SubscribeDone",
      "AnnounceCancel", "TrackStatusRequest", "TrackStatus", "GoAway",
      "ClientSetup", "ServerSetup", "StreamHeaderTrack", "StreamHeaderGroup" }

\* The discriminants of the variants, and the values decoded that are none.
Discriminants == {MessageTypeAsU64(mt) : mt \in MessageTypes}
MaxDiscriminant == 90

\* Decoding the encoding of the variant mt returns mt and the bytes read.
VariantRoundTrip(mt) ==
    MessageTypeDeserialize(MessageTypeSerialize(mt))
        = Ok(mt, Len(MessageTypeSerialize(mt)))

\* Decoding the VarInt of value fails with an invalid-message-type error.
InvalidDiscriminant(value) ==
    /\ ~MessageTypeDeserialize(VarIntSerialize(value)).ok
    /\ MessageTypeDeserialize(VarIntSerialize(value)).err
           = "ErrInvalidMessageType"

\* Decoding the stream sent, when it starts with the encoding of the variant
\* mt, returns mt.
VariantOnStream(mt) ==
    Take(stream, Len(MessageTypeSerialize(mt))) = MessageTypeSerialize(mt)
        => MessageTypeDeserialize(stream)
               = Ok(mt, Len(MessageTypeSerialize(mt)))

\* C19: the MessageType codec is a bijection on the closed set: decoding the
\* VarInt that encodes any of the 20 variants, SubscribeUpdate = 0x2
\* included, returns that variant, and decoding a VarInt of a value outside
\* the set returns an invalid-message-type error.
MessageTypeBijection ==
    /\ Cardinality(MessageTypes) = 20
    /\ \A mt \in MessageTypes : VariantRoundTrip(mt) /\ VariantOnStream(mt)
    /\ \A value \in 0..MaxDiscriminant :
           value \notin Discriminants => InvalidDiscriminant(value)

\* The codec is a bijection on the 19 variants other than SubscribeUpdate,
\* and the values outside the set of 20 are invalid.
MessageTypeBijectionButSubscribeUpdate ==
    /\ \A mt \in MessageTypes \ {"SubscribeUpdate"} :
           VariantRoundTrip(mt) /\ VariantOnStream(mt)
    /\ \A value \in 0..MaxDiscriminant :
           value \notin Discriminants => InvalidDiscriminant(value)

-----------------------------------------------------------------------------
(* C20 *)

\* The values encoded: those on either side of each threshold, the least
\* and the greatest of the model's integers (2^31 - 1).
VarIntValues ==
    { 0, Pow2_6 - 1, Pow2_6, Pow2_14 - 1, Pow2_14, Pow2_30 - 1, Pow2_30,
      Pow2_30 + (Pow2_30 - 1) }

\* How many of the thresholds 2^6, 2^14, 2^30 the value v has reached: the
\* tag of its encoding, whose size is 2 to that power.
ThresholdsReached(v) == Cardinality({t \in {Pow2_6, Pow2_14, Pow2_30} : v >= t})
SizeOfTag(tag) == CASE tag = 0 -> 1 [] tag = 1 -> 2 [] tag = 2 -> 4 [] tag = 3 -> 8

\* serialize writes size(v) bytes, 1, 2, 4 or 8 by the thresholds, the top
\* two bits of the first are the tag of that size, and deserialize of the
\* bytes returns (v, size(v)).
VarIntRoundTrip(v) ==
    /\ Len(VarIntSerialize(v)) = VarIntSize(v)
    /\ VarIntSize(v) = SizeOfTag(ThresholdsReached(v))
    /\ VarIntSerialize(v)[1] \div 64 = ThresholdsReached(v)
    /\ VarIntDeserialize(VarIntSerialize(v)) = Ok(v, VarIntSize(v))

\* The VarInt behind the tag of a control message on the stream (the
\* subscribe id of a SUBSCRIBE).
FirstField == VarIntDeserialize(Advance(stream, 1))

\* C20: for every value v (here below 2^31, the 8-byte form taken by the
\* values from 2^30 on), serialize writes exactly size(v) bytes, size being
\* 1, 2, 4 or 8 by the thresholds 2^6, 2^14, 2^30, the top two bits of the
\* first byte written are the tag of that size, and deserialize of the bytes
\* returns (v, size(v)).  Checked for VarIntValues and for the value read
\* off the stream.
VarIntRoundTripAndSize ==
    /\ \A v \in VarIntValues : VarIntRoundTrip(v)
    /\ FirstField.ok => VarIntRoundTrip(FirstField.v)

\* A value in the 8-byte form was sent and read.
EightByteValueRead ==
    /\ input = <<>>
    /\ FirstField.ok
    /\ FirstField.len = 8
    /\ FirstField.v = Pow2_30
    /\ VarIntRoundTrip(FirstField.v)

-----------------------------------------------------------------------------
(* C21: a parse attempt that fails for want of bytes.                      *)

\* A process_data step without fin on a parser that is not terminated, whose
\* first parse attempt fails: the accumulator and the chunk are all left in
\* the accumulator, which is within the ceiling.
AttemptFailedForWantOfBytes ==
    /\ ~panicked'
    /\ ~no_more_data
    /\ ~no_more_data'
    /\ buffered_message' # <<>>
    /\ buffered_message' = buffered_message \o Chunk
    /\ Len(buffered_message') <= MAX_MESSSAGE_HEADER_SIZE

\* C21: a parse attempt in process_data that fails because the accumulator
\* holds too few bytes (no fin, the accumulator within the ceiling) queues no
\* event and leaves object_metadata and payload_length_remaining, like the
\* bytes of the accumulator, as they were before the attempt; so also when
\* the header of a STREAM_HEADER_TRACK or STREAM_HEADER_GROUP stream is
\* complete and the first fields of an object are not.
FailedAttemptChangesNothing ==
    [][ AttemptFailedForWantOfBytes
        => /\ NewEvents = <<>>
           /\ object_metadata' = object_metadata
           /\ payload_length_remaining' = payload_length_remaining
      ]_vars

-----------------------------------------------------------------------------
(* C22: the header of an object behind its tag.                            *)

\* The tags that introduce an object on a stream.
ObjectTags == {"ObjectStream", "StreamHeaderTrack", "StreamHeaderGroup"}

\* The tag at the front of the stream sent.
StreamTag == MessageTypeDeserialize(stream)

\* The header fields of the stream sent, read from the first byte after the
\* tag.
HeaderBehindTag == parse_object_header(Advance(stream, StreamTag.len), StreamTag.v)

\* The stream sent starts with an object tag and a whole header, and the
\* parser has stored a header.
ObjectIntroduced ==
    /\ StreamTag.ok
    /\ StreamTag.v \in ObjectTags
    /\ HeaderBehindTag.ok
    /\ object_metadata.some

\* C22: when process_data parses an object introduced by a tag
\* (OBJECT_STREAM, STREAM_HEADER_TRACK, STREAM_HEADER_GROUP), the header
\* fields are read from the first byte after the tag: subscribe_id is the
\* first VarInt after the tag and track_alias the second, and the bytes
\* consumed for the header (what parse_object_header returns to
\* process_object, which leaves the tag to it) are those of the tag and of
\* the header fields.
HeaderReadBehindTag ==
    ObjectIntroduced
        => /\ object_metadata.v.subscribe_id = HeaderBehindTag.v.subscribe_id
           /\ object_metadata.v.track_alias = HeaderBehindTag.v.track_alias
           /\ parse_object_header(stream, StreamTag.v).len
                  = StreamTag.len + HeaderBehindTag.len

-----------------------------------------------------------------------------
(* C23: the fields of object_metadata that belong to the stream.           *)

\* The fields of a header that no object of the stream changes.
StreamFields(h) ==
    << h.object_forwarding_preference, h.subscribe_id, h.track_alias,
       h.object_send_order >>

\* C23: from the step that sets object_metadata until the step that resets
\* it to None, its object_forwarding_preference, subscribe_id, track_alias
\* and object_send_order never change (the fields of the following objects
\* change group_id, object_id, object_payload_length and object_status
\* only), and the forwarding preference is the one of the MessageType that
\* introduced the stream: Object for OBJECT_STREAM, Track for
\* STREAM_HEADER_TRACK, Group for STREAM_HEADER_GROUP.  (In the streams sent
\* the tag that introduces the objects is the first of the stream.)
StreamFieldsStable ==
    [][ /\ (object_metadata.some /\ object_metadata'.some)
            => StreamFields(object_metadata'.v) = StreamFields(object_metadata.v)
        /\ (object_metadata'.some /\ StreamTag.ok /\ StreamTag.v \in ObjectTags)
            => object_metadata'.v.object_forwarding_preference
                   = get_object_forwarding_preference(StreamTag.v)
      ]_vars

\* The fields of two objects of a STREAM_HEADER_GROUP stream, one after the
\* other, were stored in object_metadata.
SecondObjectStored ==
    /\ ~parsing_error
    /\ object_metadata.some
    /\ object_metadata.v.object_forwarding_preference = "Group"
    /\ object_metadata.v.object_payload_length.some
    /\ Len(FinalMessages(History)) >= 1
    /\ object_metadata.v.object_id
           # FinalMessages(History)[1].header.object_id
    /\ StreamFields(object_metadata.v)
           = StreamFields(FinalMessages(History)[1].header)

-----------------------------------------------------------------------------
(* C24: fin in the middle of a payload and an incomplete message at once.  *)

\* The reader r starts with the fields of an object of a STREAM_HEADER_GROUP
\* stream that declare more payload bytes than follow them.
DeclaredShort(r) ==
    /\ deserialize_fields(r, <<TRUE, TRUE, TRUE>>).ok
    /\ deserialize_fields(r, <<TRUE, TRUE, TRUE>>).v[3]
           > Len(r) - deserialize_fields(r, <<TRUE, TRUE, TRUE>>).len

\* With acc in the accumulator of p, the next thing parsed is an object of a
\* STREAM_HEADER_GROUP stream, behind the stream header when p has none.
GroupObjectNext(p, acc) ==
    IF p.object_metadata.some
    THEN p.object_metadata.v.object_forwarding_preference = "Group"
    ELSE /\ MessageTypeDeserialize(acc).ok
         /\ MessageTypeDeserialize(acc).v = "StreamHeaderGroup"
         /\ parse_object_header(acc, "StreamHeaderGroup").ok

\* where the fields of that object start
ObjectFieldsOf(p, acc) ==
    IF p.object_metadata.some THEN acc
    ELSE Advance(acc, parse_object_header(acc, "StreamHeaderGroup").len)

\* A call with fin and the bytes of chunk meets a payload of declared length
\* that is not complete: the payload in progress needs more than the chunk,
\* or the bytes that came make up the fields of an object that declare more
\* payload than has come (so that the message is incomplete as well).
MidPayloadAtFin(p, chunk) ==
    \/ /\ object_payload_in_progress(p)
       /\ p.object_metadata.v.object_payload_length.some
       /\ p.payload_length_remaining > Len(chunk)
    \/ /\ ~object_payload_in_progress(p)
       /\ Len(chunk) > 0
       /\ GroupObjectNext(p, p.buffered_message \o chunk)
       /\ DeclaredShort(ObjectFieldsOf(p, p.buffered_message \o chunk))

\* The reasons given for a fin in the middle of a payload.
MidPayloadReasons ==
    { "End of stream before complete OBJECT PAYLOAD",
      "Received FIN mid-payload" }

\* q has queued one ParsingError, a ProtocolViolation for the payload.
MidPayloadReported(q) ==
    /\ Len(ParsingErrors(PushedBy(q))) = 1
    /\ IsProtocolViolation(ParsingErrors(PushedBy(q))[1])
    /\ ParsingErrors(PushedBy(q))[1].reason \in MidPayloadReasons

\* C24: when one process_data call with fin meets both an object of declared
\* length whose payload is not complete and an incomplete message, the one
\* ParsingError queued is the ProtocolViolation for the payload, never the
\* one for the incomplete message or the end of the stream.
MidPayloadErrorFirst ==
    (~no_more_data /\ ~panicked)
        => \A n \in ChunkSizes :
               MidPayloadAtFin(Parser, Take(input, n))
                   => MidPayloadReported(
                          process_data(Parser, Take(input, n), TRUE))

\* The fin came with the fields of an object and less payload than they
\* declare: the error queued is the one for the payload, and the incomplete
\* message is still in the accumulator.
MidPayloadErrorQueued ==
    /\ buffered_message # <<>>
    /\ Len(ParsingErrors(History)) = 1
    /\ ParsingErrors(History)[1]
           = ParsingErrorEvent("ProtocolViolation", "Received FIN mid-payload")

-----------------------------------------------------------------------------
(* C25: a VarInt decode that fails.                                        *)

\* The first bytes of the stream sent, as short readers.
ShortReaders == {Take(stream, k) : k \in 1..MaxTail}

\* C25: a VarInt decode is atomic over its input: when deserialize fails
\* with ErrUnexpectedEnd because the reader ends before the length that the
\* tag bits announce, it has consumed no byte of the reader.
VarIntDecodeAtomic ==
    \A r \in ShortReaders :
        (~VarIntDeserialize(r).ok /\ VarIntDeserialize(r).err = "ErrUnexpectedEnd")
            => VarIntDeserialize(r).used = 0

-----------------------------------------------------------------------------
(* C26: the two assertions of the object path.                             *)

\* C26: the assertions of process_object (no payload is in progress) and of
\* process_object_payload (payload_length_remaining is 0) never fail,
\* whatever the process_data calls, those made after the end of the stream
\* or after an error included: no call made in a reachable state panics.
AssertionsHold ==
    /\ ~panicked
    /\ \A n \in ChunkSizes, fin \in BOOLEAN :
           ~process_data(Parser, Take(input, n), fin).panicked

\* Both functions were entered, their assertions true: an object header is
\* stored, an object was delivered, and after an error the accumulator holds
\* bytes that any further call hands to process_object again.
ObjectPathAfterError ==
    /\ parsing_error
    /\ object_stream_initialized(Parser)
    /\ ~object_payload_in_progress(Parser)
    /\ buffered_message # <<>>
    /\ input = <<>>
    /\ Len(ObjectMessages(History)) >= 1

-----------------------------------------------------------------------------
(* C27: payload_length_remaining.                                          *)

\* C27: in every reachable state payload_length_remaining is not negative
\* (the subtractions that update it never go below zero), and when it is
\* above zero object_metadata is Some, with an object_payload_length Some(L)
\* such that payload_length_remaining <= L, the status Normal and the
\* forwarding preference Group.
RemainingWithinDeclared ==
    /\ payload_length_remaining >= 0
    /\ payload_length_remaining > 0
           => /\ object_metadata.some
              /\ object_metadata.v.object_payload_length.some
              /\ payload_length_remaining
                     <= object_metadata.v.object_payload_length.v
              /\ object_metadata.v.object_status = "Normal"
              /\ object_metadata.v.object_forwarding_preference = "Group"

\* A part of a payload was delivered and less than the declared length is
\* still to come.
RemainingReduced ==
    /\ payload_length_remaining > 0
    /\ object_metadata.some
    /\ object_metadata.v.object_payload_length.some
    /\ payload_length_remaining < object_metadata.v.object_payload_length.v
    /\ Len(ObjectMessages(History)) >= 1

-----------------------------------------------------------------------------
(* C28: the accumulator while a payload is in progress.                    *)

\* C28: whenever process_data has returned with an object payload in
\* progress on a parser that has reported no error, the accumulator is
\* empty: no payload byte stays buffered between calls, and the fin checks
\* of the next call compare payload_length_remaining with the new chunk
\* alone.
NoPayloadBuffered ==
    (object_payload_in_progress(Parser) /\ ~parsing_error /\ ~panicked)
        => buffered_message = <<>>

\* A payload is in progress after a call that brought bytes of it.
PayloadInProgress ==
    /\ object_payload_in_progress(Parser)
    /\ ~parsing_error
    /\ buffered_message = <<>>
    /\ Len(ObjectMessages(History)) >= 1
    /\ input # <<>>

-----------------------------------------------------------------------------
(* C29: the termination flags.                                             *)

\* parsing_error implies no_more_data; a ParsingError has been pushed if and
\* only if parsing_error is set; a call with fin leaves no_more_data set.
FlagsConsistent ==
    /\ parsing_error => no_more_data
    /\ parsing_error <=> ParsingErrors(History) # <<>>
    /\ ~panicked
           => \A n \in ChunkSizes :
                  process_data(Parser, Take(input, n), TRUE).no_more_data

\* neither flag goes from true back to false
FlagsKept ==
    /\ no_more_data => no_more_data'
    /\ parsing_error => parsing_error'

\* C29: the termination flags are monotonic and consistent: in every
\* reachable state parsing_error implies no_more_data, neither flag ever
\* goes from true back to false, a ParsingError event has been pushed if and
\* only if parsing_error is true, and every process_data call with fin
\* leaves no_more_data true.
TerminationFlags == []FlagsConsistent /\ [][FlagsKept]_vars

\* The parser reported an error, after which further calls were made.
ErrorThenCalls ==
    /\ parsing_error
    /\ no_more_data
    /\ Len(ParsingErrors(History)) = 1
    /\ ~IsParsingError(History[Len(History)])

-----------------------------------------------------------------------------
(* C30: the parse loop ends.                                               *)

\* The parser as the parse loop of process_data(chunk, fin) finds it: the
\* chunk is in the accumulator, and the payload that the bytes finish, if
\* one was in progress, is taken off it.
LoopEntry(p, chunk) ==
    IF object_payload_in_progress(p)
    THEN [p EXCEPT
            !.buffered_message =
                Advance(p.buffered_message \o chunk, p.payload_length_remaining),
            !.payload_length_remaining = 0]
    ELSE [p EXCEPT !.buffered_message = p.buffered_message \o chunk]

\* The call process_data(chunk, fin) on p reaches its parse loop: it does not
\* return from the fin checks, nor after delivering a part of a payload.
ReachesLoop(p, chunk, fin) ==
    /\ ~(fin /\ object_payload_in_progress(p)
             /\ p.payload_length_remaining > Len(chunk))
    /\ ~(fin /\ Len(p.buffered_message) # 0 /\ Len(chunk) = 0)
    /\ object_payload_in_progress(p)
           => /\ p.object_metadata.v.object_payload_length.some
              /\ Len(p.buffered_message \o chunk) >= p.payload_length_remaining

\* Every iteration of the parse loop started on p returns, breaks, or takes
\* at least one byte off the accumulator; iterations counts those left to a
\* loop that takes one byte each time.
RECURSIVE IterationsProgress(_, _, _)
AfterAttempt(s, fin, iterations) ==
    \/ ~s.res.ok
    \/ /\ s.res.len >= 1
       /\ s.res.len <= Len(s.p.buffered_message)
       /\ IterationsProgress(
              [s.p EXCEPT !.buffered_message = Advance(@, s.res.len)],
              fin, iterations - 1)

IterationsProgress(p, fin, iterations) ==
    \/ Len(p.buffered_message) = 0
    \/ /\ iterations >= 1
       /\ AfterAttempt(process_message(p, fin), fin, iterations)

\* C30: every process_data call terminates: each iteration of its parse loop
\* returns, breaks, or removes at least one byte from the accumulator
\* (process_message never returns Ok(0) while the accumulator is not empty),
\* so the loop runs at most as many iterations as there are buffered bytes.
ParseLoopTerminates ==
    ~panicked
        => \A n \in ChunkSizes, fin \in BOOLEAN :
               ReachesLoop(Parser, Take(input, n), fin)
                   => IterationsProgress(
                          LoopEntry(mark_fin(after_end_check(Parser), fin),
                                    Take(input, n)),
                          fin,
                          Len(buffered_message) + n)

\* The stream of two control messages was parsed to its end; the loop of a
\* call that is given all of it runs twice, once for each message.
TwoIterations ==
    /\ stream = MessageSerialize(AnnounceCancelFoo)
                    \o MessageSerialize(AnnounceCancelFoo)
    /\ input = <<>>
    /\ buffered_message = <<>>
    /\ ~parsing_error
    /\ ~IterationsProgress(LoopEntry(NewParser, stream), FALSE, 1)
    /\ IterationsProgress(LoopEntry(NewParser, stream), FALSE, 2)

====
